---- MODULE Spec2Model ----
(***************************************************************************)
(* Model of the autoclicker core (src/src/lib.rs): the primary reader      *)
(* thread of StateNormal::run and of StateLegacy::run, the override reader *)
(* thread, the two mpsc channels and the click loop `autoclicker`.         *)
(***************************************************************************)
EXTENDS Integers, Sequences, FiniteSets, TLC

(* ------------------------------ bounds -------------------------------- *)

\* Most snapshots waiting on the State Channel (mpsc::channel is unbounded).
MaxQueue == 2
\* Most booleans waiting on the Override Channel.
MaxOverride == 1
\* Records fed to the primary reader while the input history is recorded.
MaxFed == 4
\* Packets fed to the legacy reader while the input history is recorded.
MaxPackets == 5
\* Records fed to the override reader while its input history is recorded.
MaxOverrideFed == 3

(* --------------------------- input alphabets --------------------------- *)

\* input_linux::sys::EV_KEY and EV_REL, the `type_` of an input_event.
EV_KEY == 1
EV_REL == 2

\* Device codes: Key::ButtonSide, Key::ButtonExtra and Key::ButtonMiddle, the
\* bindings the command line suggests, and KEY_C, bound to nothing here.
ButtonSide == 275
ButtonExtra == 276
ButtonMiddle == 274
KEY_C == 46
\* KEY_LEFTCTRL, the override key.
KEY_LEFTCTRL == 29

Codes == {KEY_C, ButtonSide, ButtonExtra, ButtonMiddle}
\* event.value: 0 release, 1 press, 2 repeat.
Values == {0, 1, 2}
\* The records the primary device delivers (one per read: `events` has length 1).
Events == [code : Codes, value : Values]
\* The records the override device delivers.
OverrideEvents == [type_ : {EV_KEY, EV_REL}, code : {KEY_LEFTCTRL, KEY_C}, value : Values]
\* What nix::unistd::read returns on the legacy device: the length read and
\* byte 0 of the buffer; a short read is represented by length 2.
Packets == [len : {3}, byte0 : 0..7] \cup [len : {2}, byte0 : {0}]

(* ------------------------------ state ---------------------------------- *)

VARIABLES
    variant,            \* Variant: "Normal" or "Legacy"
    left_bind,          \* StateNormal.left_bind
    right_bind,         \* StateNormal.right_bind
    lock_unlock_bind,   \* Option<u16> as a set of at most one code
    override_keys,      \* StateNormal.override_keys
    override_device,    \* Shared.override_device.is_some()
    hold,               \* StateNormal.hold
    grab,               \* StateNormal.grab
    cooldown_pr,        \* cooldown_pr in milliseconds
    tracing,            \* whether the input history `fed` is recorded
    state,              \* the primary reader's AutoclickerState
    old,                \* legacy reader: old_left, old_right, old_middle
    written,            \* what the reader's last step wrote to the Output Device
    fed,                \* the records read by the primary reader so far
    input_alive,        \* the primary reader thread has not panicked
    override_pc,        \* the override reader's position: "read" or "backoff"
    channel,            \* State Channel: transmitter -> receiver
    override_channel,   \* Override Channel: override_tx -> override_rx
    toggle,             \* the emitter's AutoclickerState
    should_click_immediately,
    synced,             \* the emitter has consumed a snapshot
    override_fed,       \* the records read by the override reader so far
    pc,                 \* the emitter's position in its loop
    calls               \* the emitter's channel reads, key commands and sleeps
                        \* of the current loop iteration, in order

config == <<variant, left_bind, right_bind, lock_unlock_bind, override_keys,
            override_device, hold, grab, cooldown_pr, tracing>>
reader == <<state, old, written, fed, input_alive>>
emitter == <<toggle, should_click_immediately, synced, pc, calls>>
vars == <<config, reader, override_pc, override_fed, channel, override_channel, emitter>>

(* ----------------------- AutoclickerState ------------------------------ *)

\* #[derive(Default)]: every flag false.
Default == [left |-> FALSE, right |-> FALSE, lock |-> FALSE, override_active |-> FALSE]

AutoclickerState == [left : BOOLEAN, right : BOOLEAN, lock : BOOLEAN, override_active : BOOLEAN]

(* ---------------- toggle state machine, modern source ------------------ *)

\* Mutant of pressed: a repeat (value 2) does not count as pressed.
pressedNoRepeat(event) == event.value = 1

\* let pressed = matches!(event.value, 1 | 2);
pressed(event) == event.value \in {1, 2}

\* Mutant of ApplyBind: hold mode is ignored, every pressed record toggles.
ApplyBindToggle(flag, event, bind) ==
    IF event.code = bind /\ pressed(event) THEN ~flag ELSE flag

\* Mutant of ApplyBind: in hold mode a release does not clear the flag.
ApplyBindSticky(flag, event, bind) ==
    IF event.code = bind
    THEN IF hold
         THEN pressed(event) \/ flag
         ELSE IF pressed(event) THEN ~flag ELSE flag
    ELSE flag

\* The body of the loop over (bind, flag) for one pair.
ApplyBind(flag, event, bind) ==
    IF event.code = bind
    THEN IF hold
         THEN pressed(event)
         ELSE IF pressed(event) THEN ~flag ELSE flag
    ELSE flag

\* Mutant of ApplyBinds: the bindings act whatever the lock.
ApplyBindsUngated(s, event) ==
    [s EXCEPT !.left = ApplyBind(s.left, event, left_bind),
              !.right = ApplyBind(s.right, event, right_bind)]

\* Mutant of ApplyBinds: a record acts on one role, the last it matches.
ApplyBindsLastWins(s, event) ==
    IF ~s.lock
    THEN IF event.code = right_bind
         THEN [s EXCEPT !.right = ApplyBind(s.right, event, right_bind)]
         ELSE [s EXCEPT !.left = ApplyBind(s.left, event, left_bind)]
    ELSE s

\* if !state.lock { for (bind, state) in [(left_bind, ..), (right_bind, ..)] {..} }
ApplyBinds(s, event) ==
    IF ~s.lock
    THEN [s EXCEPT !.left = ApplyBind(s.left, event, left_bind),
                   !.right = ApplyBind(s.right, event, right_bind)]
    ELSE s

\* Mutant of Used: a record on left_bind or right_bind is used in any lock state.
UsedLocked(s, event) == event.code = left_bind \/ event.code = right_bind

\* `used`: set when an unlocked record matched left_bind or right_bind.
Used(s, event) == ~s.lock /\ (event.code = left_bind \/ event.code = right_bind)

\* Mutant of ApplyLock: the lock binding is read only while unlocked.
ApplyLockGated(s, event) ==
    IF ~s.lock /\ \E bind \in lock_unlock_bind : event.code = bind /\ pressed(event)
    THEN [s EXCEPT !.lock = ~s.lock]
    ELSE s

\* Mutant of ApplyLock: locking clears the click flags.
ApplyLockClears(s, event) ==
    IF \E bind \in lock_unlock_bind : event.code = bind /\ pressed(event)
    THEN IF s.lock
         THEN [s EXCEPT !.lock = FALSE]
         ELSE [s EXCEPT !.lock = TRUE, !.left = FALSE, !.right = FALSE]
    ELSE s

\* if let Some(bind) = self.lock_unlock_bind { if event.code == bind && pressed {..} }
ApplyLock(s, event) ==
    IF \E bind \in lock_unlock_bind : event.code = bind /\ pressed(event)
    THEN [s EXCEPT !.lock = ~s.lock]
    ELSE s

\* The state after one record.
NormalNext(s, event) == ApplyLock(ApplyBinds(s, event), event)

(* ---------------- toggle state machine, legacy source ------------------ *)

\* data[0] & 1, (data[0] >> 1) & 1, (data[0] >> 2) & 1
Levels(byte0) == [left |-> byte0 % 2, right |-> (byte0 \div 2) % 2, middle |-> (byte0 \div 4) % 2]

\* Mutant of Edge: the level is tested, not the edge.
EdgeLevel(flag, value, old_value) == IF value = 1 THEN ~flag ELSE flag

\* if value == 1 && old_value == 0 { *state = !*state; }
Edge(flag, value, old_value) == IF value = 1 /\ old_value = 0 THEN ~flag ELSE flag

LegacyBinds(s, lv, o) ==
    IF ~s.lock
    THEN [s EXCEPT !.left = Edge(s.left, lv.left, o.left),
                   !.right = Edge(s.right, lv.right, o.right)]
    ELSE s

LegacyLock(s, lv, o) == [s EXCEPT !.lock = Edge(s.lock, lv.middle, o.middle)]

LegacyNext(s, lv, o) == LegacyLock(LegacyBinds(s, lv, o), lv, o)

(* ------------------------------ emitter -------------------------------- *)

\* toggle.override_active = override_active;
OverrideMerge(t, override_active) == [t EXCEPT !.override_active = override_active]

\* Mutant of ClickImmediately: the click flags are not tested.
ClickImmediatelyIdle(t, override_active) == t.override_active /\ ~override_active

\* was_override_active && !override_active && (toggle.left || toggle.right)
ClickImmediately(t, override_active) ==
    t.override_active /\ ~override_active /\ (t.left \/ t.right)

\* Mutant of StateMerge: the snapshot replaces the whole toggle.
StateMergeWhole(t, recv) == recv

\* Mutant of StateMerge: the emitter keeps its own lock.
StateMergeKeepLock(t, recv) ==
    [recv EXCEPT !.override_active = t.override_active, !.lock = t.lock]

\* toggle = recv; toggle.override_active = current_override;
StateMerge(t, recv) == [recv EXCEPT !.override_active = t.override_active]

\* Mutant of Polls: only the left flag is tested.
PollsLeft(t) == t.left

\* Whether the State Channel is polled without blocking: toggle.left | toggle.right
Polls(t) == t.left \/ t.right

\* Mutant of Clicks: the override is ignored.
ClicksAlways(t) == TRUE

\* Mutant of Clicks: a locked toggle does not click.
ClicksUnlocked(t) == ~t.override_active /\ ~t.lock

\* Perform clicks if override device is not active: !toggle.override_active
Clicks(t) == ~t.override_active

\* Mutant of Button: the left flag is tested first.
ButtonLeftFirst(t) ==
    IF t.left THEN <<"ButtonLeft">> ELSE IF t.right THEN <<"ButtonRight">> ELSE <<>>

\* if toggle.right { ButtonRight } else if toggle.left { ButtonLeft }
Button(t) ==
    IF t.right THEN <<"ButtonRight">> ELSE IF t.left THEN <<"ButtonLeft">> ELSE <<>>

\* The key commands sent with the given KeyState.
SendKey(t, keystate) == [i \in 1..Len(Button(t)) |-> <<Button(t)[i], keystate>>]

\* Mutant of CooldownSleep: the sleep is never skipped.
CooldownSleepAlways(sci) == <<<<"sleep", "cooldown">>>>

\* if !should_click_immediately { thread::sleep(cooldown); }
CooldownSleep(sci) == IF ~sci THEN <<<<"sleep", "cooldown">>>> ELSE <<>>

(* ------------------------------ Init ----------------------------------- *)

NoWrite == <<>>
NoLevels == [left |-> 0, right |-> 0, middle |-> 0]

\* The state common to every start: the first snapshot is already on the
\* State Channel, the emitter's toggle is Default.
Start(initial) ==
    /\ state = initial
    /\ old = NoLevels
    /\ written = NoWrite
    /\ fed = <<>>
    /\ input_alive = TRUE
    /\ override_pc = "read"
    /\ channel = <<initial>>
    /\ override_channel = <<>>
    /\ toggle = Default
    /\ should_click_immediately = FALSE
    /\ synced = FALSE
    /\ override_fed = <<>>
    /\ pc = "override"
    /\ calls = <<>>

\* StateNormal::run: state.lock = self.lock_unlock_bind.is_some()
InitNormal(binds, locks) ==
    /\ variant = "Normal"
    /\ left_bind = ButtonSide
    /\ right_bind \in binds
    /\ lock_unlock_bind \in locks
    /\ override_keys = {KEY_LEFTCTRL}
    /\ hold \in BOOLEAN
    /\ Start([Default EXCEPT !.lock = (lock_unlock_bind # {})])

\* Mutant of InitLegacy: the legacy reader starts unlocked.
InitLegacyUnlocked ==
    /\ variant = "Legacy"
    /\ left_bind = ButtonSide
    /\ right_bind = ButtonExtra
    /\ lock_unlock_bind = {}
    /\ override_keys = {}
    /\ override_device = FALSE
    /\ hold = FALSE
    /\ grab = FALSE
    /\ Start(Default)

\* StateLegacy::run: lock: true, ..Default::default()
InitLegacy ==
    /\ variant = "Legacy"
    /\ left_bind = ButtonSide
    /\ right_bind = ButtonExtra
    /\ lock_unlock_bind = {}
    /\ override_keys = {}
    /\ override_device = FALSE
    /\ hold = FALSE
    /\ grab = FALSE
    /\ Start([Default EXCEPT !.lock = TRUE])

AllLocks == {{}} \cup {{c} : c \in {ButtonSide, ButtonExtra, ButtonMiddle}}

\* The whole program: readers, channels and emitter. The configurations:
\* the modern reader beside an override device (with and without a lock
\* binding, in hold and in toggle mode), the modern reader grabbing its
\* device, and the legacy reader.
Init ==
    /\ tracing = FALSE
    /\ \/ /\ InitNormal({ButtonExtra}, {{}, {ButtonMiddle}})
          /\ override_device = TRUE
          /\ grab = FALSE
          /\ cooldown_pr \in {0, 25}
       \/ /\ InitNormal({ButtonExtra}, {{ButtonMiddle}})
          /\ override_device = FALSE
          /\ grab = TRUE
          /\ cooldown_pr = 0
       \/ /\ InitLegacy
          /\ cooldown_pr \in {0, 25}

\* The primary reader alone, its input history recorded: every collision of
\* the bindings, with and without a lock binding.
InitSeq ==
    /\ tracing = TRUE
    /\ cooldown_pr = 0
    /\ \/ /\ InitNormal({ButtonSide, ButtonExtra}, AllLocks)
          /\ override_device = FALSE
          /\ grab = TRUE
       \/ /\ InitNormal({ButtonExtra}, {{ButtonMiddle}})
          /\ override_device = FALSE
          /\ grab = FALSE
       \/ InitLegacy

(* --------------------------- reader threads ---------------------------- *)

\* The bound on the model: MaxFed records (MaxPackets legacy packets) when
\* the history is recorded, MaxQueue waiting snapshots otherwise.
Room(sends) ==
    IF tracing
    THEN Len(fed) < (IF variant = "Legacy" THEN MaxPackets ELSE MaxFed)
    ELSE ~sends \/ Len(channel) < MaxQueue

Feed(input) == IF tracing THEN Append(fed, input) ELSE fed

\* Mutant of Publish: a snapshot is sent after every record.
PublishAlways(old_state, new) == Append(channel, new)

\* if old_state != state { transmitter.send(state).unwrap(); }
Publish(old_state, new) == IF old_state # new THEN Append(channel, new) ELSE channel

\* Mutant of PassThrough: grab is not tested.
PassThroughAlways(s, event) == IF ~Used(s, event) THEN <<event>> ELSE <<>>

\* if grab && !used { output.write(&events) }
PassThrough(s, event) == IF grab /\ ~Used(s, event) THEN <<event>> ELSE NoWrite

\* Mutant of ReadNormal: the reader waits while the emitter is between a
\* press and its release.
ReadNormalExcluded ==
    /\ variant = "Normal"
    /\ input_alive
    /\ pc \notin {"sleep", "release"}
    /\ \E event \in Events :
        /\ Room(NormalNext(state, event) # state)
        /\ state' = NormalNext(state, event)
        /\ channel' = Publish(state, NormalNext(state, event))
        /\ written' = PassThrough(state, event)
        /\ fed' = Feed(event)
    /\ UNCHANGED <<config, old, input_alive, override_pc, override_fed, override_channel, emitter>>

\* One iteration of the primary reader loop of StateNormal::run.
ReadNormal ==
    /\ variant = "Normal"
    /\ input_alive
    /\ \E event \in Events :
        /\ Room(NormalNext(state, event) # state)
        /\ state' = NormalNext(state, event)
        /\ channel' = Publish(state, NormalNext(state, event))
        /\ written' = PassThrough(state, event)
        /\ fed' = Feed(event)
    /\ UNCHANGED <<config, old, input_alive, override_pc, override_fed, override_channel, emitter>>

\* input.read(&mut events).unwrap() on a failed read: the reader thread
\* panics and drops the transmitter; the other threads run on.
FailNormal ==
    /\ variant = "Normal"
    /\ input_alive
    /\ ~tracing
    /\ input_alive' = FALSE
    /\ UNCHANGED <<config, state, old, written, fed, override_pc, override_fed, channel, override_channel, emitter>>

\* Mutant of ReadLegacy: the length read is not tested.
ReadLegacyAnyLength ==
    /\ variant = "Legacy"
    /\ input_alive
    /\ \E packet \in Packets :
        /\ Room(LegacyNext(state, Levels(packet.byte0), old) # state)
        /\ state' = LegacyNext(state, Levels(packet.byte0), old)
        /\ old' = Levels(packet.byte0)
        /\ channel' = Publish(state, LegacyNext(state, Levels(packet.byte0), old))
        /\ fed' = Feed(packet)
        /\ UNCHANGED written
    /\ UNCHANGED <<config, input_alive, override_pc, override_fed, override_channel, emitter>>

\* One iteration of the reader loop of StateLegacy::run.
ReadLegacy ==
    /\ variant = "Legacy"
    /\ input_alive
    /\ \E packet \in Packets :
        IF packet.len # 3
        THEN /\ Room(FALSE)
             /\ fed' = Feed(packet)
             /\ UNCHANGED <<state, old, written, channel>>
        ELSE /\ Room(LegacyNext(state, Levels(packet.byte0), old) # state)
             /\ state' = LegacyNext(state, Levels(packet.byte0), old)
             /\ old' = Levels(packet.byte0)
             /\ channel' = Publish(state, LegacyNext(state, Levels(packet.byte0), old))
             /\ fed' = Feed(packet)
             /\ UNCHANGED written
    /\ UNCHANGED <<config, input_alive, override_pc, override_fed, override_channel, emitter>>

\* let Ok(len) = nix::unistd::read(fd, &mut data) else { panic!(..) }: the
\* reader thread panics and drops the transmitter.
FailLegacy ==
    /\ variant = "Legacy"
    /\ input_alive
    /\ ~tracing
    /\ input_alive' = FALSE
    /\ UNCHANGED <<config, state, old, written, fed, override_pc, override_fed, channel, override_channel, emitter>>

\* Mutant of OverrideSignal: the type of the record is not tested.
OverrideSignalAnyType(event) ==
    IF event.code \in override_keys THEN <<pressed(event)>> ELSE <<>>

\* The boolean the override reader sends for a record, if any.
OverrideSignal(event) ==
    IF event.type_ = EV_KEY /\ event.code \in override_keys
    THEN <<pressed(event)>>
    ELSE <<>>

\* One iteration of the override reader loop.
ReadOverride ==
    /\ variant = "Normal"
    /\ override_device
    /\ override_pc = "read"
    /\ \E event \in OverrideEvents :
        /\ IF tracing
           THEN Len(override_fed) < MaxOverrideFed
           ELSE Len(override_channel) + Len(OverrideSignal(event)) <= MaxOverride
        /\ override_channel' = override_channel \o OverrideSignal(event)
        /\ override_fed' = IF tracing THEN Append(override_fed, event) ELSE override_fed
    /\ UNCHANGED <<config, reader, override_pc, channel, emitter>>

\* Mutant of FailOverride: the override reader leaves its loop on a failed read.
FailOverrideExits ==
    /\ variant = "Normal"
    /\ override_device
    /\ override_pc = "read"
    /\ override_pc' = "exited"
    /\ UNCHANGED <<config, reader, override_fed, channel, override_channel, emitter>>

\* Err(e) => { .. } of override_dev.read: nothing is sent, the thread sleeps.
FailOverride ==
    /\ variant = "Normal"
    /\ override_device
    /\ override_pc = "read"
    /\ override_pc' = "backoff"
    /\ UNCHANGED <<config, reader, override_fed, channel, override_channel, emitter>>

\* std::thread::sleep(Duration::from_millis(1000)) is over: the loop reads again.
RetryOverride ==
    /\ override_pc = "backoff"
    /\ override_pc' = "read"
    /\ UNCHANGED <<config, reader, override_fed, channel, override_channel, emitter>>

(* ------------------------------ emitter loop --------------------------- *)

\* let mut should_click_immediately = false;
\* if let Ok(override_active) = override_receiver.try_recv() { .. }
PollOverride ==
    /\ pc = "override"
    /\ IF override_channel # <<>>
       THEN /\ toggle' = OverrideMerge(toggle, Head(override_channel))
            /\ should_click_immediately' = ClickImmediately(toggle, Head(override_channel))
            /\ override_channel' = Tail(override_channel)
            /\ calls' = <<<<"override", IF Head(override_channel) THEN "true" ELSE "false">>>>
       ELSE /\ should_click_immediately' = FALSE
            /\ calls' = <<>>
            /\ UNCHANGED <<toggle, override_channel>>
    /\ pc' = "state"
    /\ UNCHANGED <<config, reader, override_pc, override_fed, channel, synced>>

\* Mutant of RecvState: the waiting snapshots are coalesced, the latest wins.
RecvStateLatest ==
    /\ pc = "state"
    /\ IF channel # <<>>
       THEN /\ toggle' = StateMerge(toggle, channel[Len(channel)])
            /\ synced' = TRUE
            /\ channel' = <<>>
            /\ calls' = Append(calls, <<IF Polls(toggle) THEN "try_recv" ELSE "recv", "some">>)
       ELSE /\ Polls(toggle) \/ ~input_alive
            /\ calls' = Append(calls, <<IF Polls(toggle) THEN "try_recv" ELSE "recv", "none">>)
            /\ UNCHANGED <<toggle, channel, synced>>
    /\ pc' = "press"
    /\ UNCHANGED <<config, reader, override_pc, override_fed, override_channel, should_click_immediately>>

\* if let Some(recv) = if toggle.left | toggle.right
\*     { receiver.try_recv().ok() } else { receiver.recv().ok() } { .. }
\* recv() blocks while the channel is empty and the transmitter lives, and
\* returns Err once the reader thread has dropped it.
RecvState ==
    /\ pc = "state"
    /\ IF channel # <<>>
       THEN /\ toggle' = StateMerge(toggle, Head(channel))
            /\ synced' = TRUE
            /\ channel' = Tail(channel)
            /\ calls' = Append(calls, <<IF Polls(toggle) THEN "try_recv" ELSE "recv", "some">>)
       ELSE /\ Polls(toggle) \/ ~input_alive
            /\ calls' = Append(calls, <<IF Polls(toggle) THEN "try_recv" ELSE "recv", "none">>)
            /\ UNCHANGED <<toggle, channel, synced>>
    /\ pc' = "press"
    /\ UNCHANGED <<config, reader, override_pc, override_fed, override_channel, should_click_immediately>>

\* if !toggle.override_active { press .. }
Press ==
    /\ pc = "press"
    /\ IF Clicks(toggle)
       THEN /\ calls' = calls \o SendKey(toggle, "PRESSED")
            /\ pc' = IF cooldown_pr # 0 THEN "sleep" ELSE "release"
       ELSE /\ pc' = "cooldown"
            /\ UNCHANGED calls
    /\ UNCHANGED <<config, reader, override_pc, channel, override_channel, override_fed, toggle, should_click_immediately, synced>>

\* if !cooldown_pr.is_zero() { thread::sleep(cooldown_pr); }
SleepPr ==
    /\ pc = "sleep"
    /\ calls' = Append(calls, <<"sleep", "cooldown_pr">>)
    /\ pc' = "release"
    /\ UNCHANGED <<config, reader, override_pc, channel, override_channel, override_fed, toggle, should_click_immediately, synced>>

\* Release the same button that was pressed
Release ==
    /\ pc = "release"
    /\ calls' = calls \o SendKey(toggle, "RELEASED")
    /\ pc' = "cooldown"
    /\ UNCHANGED <<config, reader, override_pc, channel, override_channel, override_fed, toggle, should_click_immediately, synced>>

\* if !should_click_immediately { thread::sleep(cooldown); }
Cooldown ==
    /\ pc = "cooldown"
    /\ calls' = calls \o CooldownSleep(should_click_immediately)
    /\ pc' = "override"
    /\ UNCHANGED <<config, reader, override_pc, channel, override_channel, override_fed, toggle, should_click_immediately, synced>>

Emitter == PollOverride \/ RecvState \/ Press \/ SleepPr \/ Release \/ Cooldown

(* --------------------------- specifications ---------------------------- *)

Next ==
    \/ ReadNormal \/ FailNormal
    \/ ReadLegacy \/ FailLegacy
    \/ ReadOverride \/ FailOverride \/ RetryOverride
    \/ Emitter

Spec == Init /\ [][Next]_vars

\* The whole program with the emitter scheduled fairly: it runs on the main
\* thread and every step of its loop that can be taken is taken in the end.
\* The readers wait for their devices and need never step.
SpecLive == Init /\ [][Next]_vars /\ WF_vars(Emitter)

NextSeq == ReadNormal \/ ReadLegacy

SpecSeq == InitSeq /\ [][NextSeq]_vars

\* The override reader alone, its input history recorded.
InitOverride ==
    /\ tracing = TRUE
    /\ cooldown_pr = 0
    /\ InitNormal({ButtonExtra}, {{}})
    /\ override_device = TRUE
    /\ grab = FALSE

NextOverride == ReadOverride \/ FailOverride \/ RetryOverride

SpecOverride == InitOverride /\ [][NextOverride]_vars

(* ------------------- reading the recorded history ---------------------- *)

Last(S) == CHOOSE i \in S : \A j \in S : j <= i

Odd(n) == n % 2 = 1

\* The positions of `fed` holding a record on the code `bind`.
OnBind(bind) == {i \in 1..Len(fed) : fed[i].code = bind}

\* The positions of `fed` holding a press or repeat.
Pressed == {i \in 1..Len(fed) : fed[i].value \in {1, 2}}

\* Whether the modern reader was locked when it read fed[i]: it starts locked
\* exactly when a lock binding is configured, and every press or repeat on
\* the lock binding flips the lock.
LockedBefore(i) ==
    (lock_unlock_bind # {}) =
        ~Odd(Cardinality({j \in 1..(i - 1) : fed[j].code \in lock_unlock_bind /\ j \in Pressed}))

\* The positions of `fed` holding a record on `bind` read while unlocked.
Effective(bind) == {i \in OnBind(bind) : ~LockedBefore(i)}

\* The legacy packets of three bytes read so far, and the middle level of the
\* last of them (0 before the first).
WellFormed == {i \in 1..Len(fed) : fed[i].len = 3}
PreviousMiddle ==
    IF WellFormed = {} THEN 0 ELSE (fed[Last(WellFormed)].byte0 \div 4) % 2

\* The record the reader step just taken has read.
JustRead == fed'[Len(fed')]

(* ------------------- reading the emitter's iteration ------------------- *)

IsKey(c) == c[2] \in {"PRESSED", "RELEASED"}
IsPress(c) == c[2] = "PRESSED"
IsAct(c) == c[1] \in {"ButtonLeft", "ButtonRight", "sleep"}

Keys(cs) == SelectSeq(cs, IsKey)
Presses(cs) == SelectSeq(cs, IsPress)
Acts(cs) == SelectSeq(cs, IsAct)

\* The emitter has finished a loop iteration; `calls` is what it did in it
\* and `toggle` is what the click step saw.
IterationDone == pc = "override" /\ calls # <<>>

\* A press with no sleep before it in the iteration.
PressedWithoutSleep(cs) ==
    \E i \in 1..Len(cs) : IsPress(cs[i]) /\ \A j \in 1..(i - 1) : cs[j][1] # "sleep"

\* press(X), the sleep of cooldown_press_release when nonzero, release(X).
ClickOf(X) ==
    <<<<X, "PRESSED">>>>
    \o (IF cooldown_pr # 0 THEN <<<<"sleep", "cooldown_pr">>>> ELSE <<>>)
    \o <<<<X, "RELEASED">>>>

IsPrefix(p, q) == Len(p) <= Len(q) /\ \A i \in 1..Len(p) : p[i] = q[i]

(* ------------------------------- claims -------------------------------- *)

\* C1. Lock gating: a record or packet read while the reader's lock is true
\* leaves left and right unchanged, in the modern and in the legacy reader.
LockGating ==
    [][fed' # fed /\ state.lock => state'.left = state.left /\ state'.right = state.right]_vars

\* C1 witness: the modern reader, locked at start, has read a press on
\* left_bind and left is still false.
LockGatingWitness ==
    /\ variant = "Normal"
    /\ fed = <<[code |-> left_bind, value |-> 1]>>
    /\ state.lock
    /\ ~state.left

\* C2. The lock toggle is never gated: every press or repeat on
\* lock_unlock_bind (modern) and every rising edge of the middle button
\* (legacy) flips lock, whatever lock was.
LockToggle ==
    [][fed' # fed =>
        /\ variant = "Normal" /\ JustRead.code \in lock_unlock_bind /\ JustRead.value \in {1, 2}
              => state'.lock = ~state.lock
        /\ variant = "Legacy" /\ JustRead.len = 3 /\ (JustRead.byte0 \div 4) % 2 = 1
              /\ PreviousMiddle = 0
              => state'.lock = ~state.lock]_vars

\* C2 witness: a press and then a repeat on the lock binding, read by a
\* reader that started locked: lock was flipped off and on again.
LockToggleWitness ==
    /\ variant = "Normal"
    /\ Len(fed) = 2
    /\ fed[1].code \in lock_unlock_bind /\ fed[1].value = 1
    /\ fed[2].code \in lock_unlock_bind /\ fed[2].value = 2
    /\ state.lock

\* C3. Override precedence: while the emitter's override_active is true it
\* sends no press and no release, even when left or right is true.
OverridePrecedence == toggle.override_active => Keys(calls) = <<>>

\* C3 witness: an iteration done with override_active and a click flag set.
OverridePrecedenceWitness ==
    IterationDone /\ toggle.override_active /\ (toggle.left \/ toggle.right)

\* C4 as claimed: an iteration that consumed the override message `false`
\* while override_active was true and left or right was set emits a press,
\* with no sleep before it.
OverrideResumeAsClaimed ==
    IterationDone /\ should_click_immediately => PressedWithoutSleep(calls)

\* C4 amended: such an iteration emits the press, with no sleep before it,
\* when left or right is still set after its State Channel step; when the
\* snapshot consumed in that step has cleared both, it sends no key command.
OverrideResume ==
    IterationDone /\ should_click_immediately =>
        IF toggle.left \/ toggle.right
        THEN PressedWithoutSleep(calls)
        ELSE Keys(calls) = <<>>

\* C4 witness: an iteration that consumed the resuming message and pressed.
OverrideResumeWitness ==
    /\ IterationDone
    /\ should_click_immediately
    /\ calls[1] = <<"override", "false">>
    /\ Presses(calls) # <<>>

\* C5. Priority rule: with left and right both true the emitter sends no
\* left command, and an iteration that clicks sends press and release of the
\* right button only.
PriorityRule ==
    toggle.left /\ toggle.right =>
        /\ \A i \in 1..Len(calls) : calls[i][1] # "ButtonLeft"
        /\ IterationDone /\ ~toggle.override_active =>
              Keys(calls) = <<<<"ButtonRight", "PRESSED">>, <<"ButtonRight", "RELEASED">>>>

\* C5 witness: an iteration done with both flags set and no override.
PriorityRuleWitness ==
    IterationDone /\ toggle.left /\ toggle.right /\ ~toggle.override_active

\* C6. Click emission tracks the toggle: an iteration sends a press exactly
\* when override_active is false and left or right is true, whatever lock is,
\* and no key command is sent while left and right are both false.
ClickTracksToggle ==
    /\ IterationDone =>
          (Presses(calls) # <<>> <=> ~toggle.override_active /\ (toggle.left \/ toggle.right))
    /\ ~(toggle.left \/ toggle.right) => Keys(calls) = <<>>

\* C6 witness: an iteration that pressed while the toggle was locked.
ClickTracksToggleWitness ==
    IterationDone /\ toggle.lock /\ Presses(calls) # <<>>

\* C7 as claimed: an iteration that sends a key command does press(X), the
\* sleep of cooldown_press_release when nonzero, release(X) and then the
\* cooldown sleep.
PairingAsClaimed ==
    IterationDone /\ Keys(calls) # <<>> =>
        \E X \in {"ButtonLeft", "ButtonRight"} :
            Acts(calls) = ClickOf(X) \o <<<<"sleep", "cooldown">>>>

\* C7 amended: as claimed, except that no cooldown sleep follows the release
\* in an iteration that set should_click_immediately; at every point of an
\* iteration the key commands sent are a prefix of press(X), release(X).
Pairing ==
    /\ IterationDone /\ Keys(calls) # <<>> =>
          \E X \in {"ButtonLeft", "ButtonRight"} :
              Acts(calls) = ClickOf(X) \o
                  (IF should_click_immediately THEN <<>> ELSE <<<<"sleep", "cooldown">>>>)
    /\ \E X \in {"ButtonLeft", "ButtonRight"} :
          IsPrefix(Keys(calls), <<<<X, "PRESSED">>, <<X, "RELEASED">>>>)

\* C7 witness: a click with a nonzero cooldown_press_release, followed by
\* the cooldown sleep.
PairingWitness ==
    /\ IterationDone
    /\ cooldown_pr # 0
    /\ Len(Keys(calls)) = 2
    /\ calls[Len(calls)] = <<"sleep", "cooldown">>

\* press, release, press, release on left_bind.
PressReleaseTwice ==
    [i \in 1..4 |-> [code |-> left_bind, value |-> i % 2]]

\* C8 as claimed: in hold mode, from the reader's initial state, the records
\* press, release, press, release on left_bind make left true, false, true,
\* false.
HoldSequenceAsClaimed ==
    variant = "Normal" /\ hold /\ fed # <<>> /\ IsPrefix(fed, PressReleaseTwice)
        => state.left = Odd(Len(fed))

\* C8 amended: the same when no lock binding is configured, so that the
\* reader's initial state is unlocked.
HoldSequence ==
    variant = "Normal" /\ hold /\ lock_unlock_bind = {}
        /\ fed # <<>> /\ IsPrefix(fed, PressReleaseTwice)
        => state.left = Odd(Len(fed))

\* C8 witness: the four records have been read by an unlocked reader.
HoldSequenceWitness ==
    variant = "Normal" /\ hold /\ lock_unlock_bind = {} /\ fed = PressReleaseTwice

\* C9 as claimed: in hold mode left (right) tells whether the most recent
\* record on left_bind (right_bind) was a press or repeat.
HoldMirrorsAsClaimed ==
    variant = "Normal" /\ hold =>
        /\ OnBind(left_bind) # {} => state.left = (Last(OnBind(left_bind)) \in Pressed)
        /\ OnBind(right_bind) # {} => state.right = (Last(OnBind(right_bind)) \in Pressed)

\* C9 amended: in hold mode left (right) tells whether the most recent record
\* on left_bind (right_bind) read while lock was false was a press or repeat;
\* it is false when there is no such record.
HoldMirrors ==
    variant = "Normal" /\ hold =>
        /\ state.left = (Effective(left_bind) # {} /\ Last(Effective(left_bind)) \in Pressed)
        /\ state.right = (Effective(right_bind) # {} /\ Last(Effective(right_bind)) \in Pressed)

\* C9 witness: press on left_bind, then a release read by an unlocked reader
\* that has a lock binding.
HoldMirrorsWitness ==
    /\ variant = "Normal" /\ hold /\ lock_unlock_bind # {}
    /\ Len(fed) >= 3
    /\ Effective(left_bind) # {}
    /\ Last(Effective(left_bind)) \notin Pressed
    /\ \E i \in Effective(left_bind) : i \in Pressed

\* C10 as claimed: in toggle mode the N pressed records read on a binding
\* have flipped its flag N times and the releases not at all.
ToggleAlternationAsClaimed ==
    variant = "Normal" /\ ~hold =>
        /\ state.left = Odd(Cardinality(OnBind(left_bind) \cap Pressed))
        /\ state.right = Odd(Cardinality(OnBind(right_bind) \cap Pressed))

\* C10 amended: the flips are those of the pressed records read while lock
\* was false; a pressed record read while locked and a release never change
\* the flag.
ToggleAlternation ==
    variant = "Normal" /\ ~hold =>
        /\ state.left = Odd(Cardinality(Effective(left_bind) \cap Pressed))
        /\ state.right = Odd(Cardinality(Effective(right_bind) \cap Pressed))

\* C10 witness: press, release and repeat on left_bind read unlocked: two
\* flips, the flag is false again.
ToggleAlternationWitness ==
    /\ variant = "Normal" /\ ~hold
    /\ Cardinality(Effective(left_bind) \cap Pressed) = 2
    /\ \E i \in Effective(left_bind) : fed[i].value = 2
    /\ \E i \in Effective(left_bind) : fed[i].value = 0
    /\ ~state.left

(* ------------------ reading the legacy packet history ------------------ *)

\* The three-byte packets read before fed[i].
WellFormedBefore(i) == {j \in WellFormed : j < i}

\* Whether bit `bit` (1 left, 4 middle) of byte 0 rises at fed[i]: it is 1 in
\* this three-byte packet and was 0 in the one before (or there is none).
Rises(bit, i) ==
    /\ i \in WellFormed
    /\ (fed[i].byte0 \div bit) % 2 = 1
    /\ \/ WellFormedBefore(i) = {}
       \/ (fed[Last(WellFormedBefore(i))].byte0 \div bit) % 2 = 0

\* Whether the legacy reader was locked when it read fed[i]: it starts locked
\* and every rising edge of the middle button flips the lock.
LegacyLockedBefore(i) == ~Odd(Cardinality({j \in 1..(i - 1) : Rises(4, j)}))

\* 0b000, 0b001, 0b000, 0b001
LeftTwice == [i \in 1..4 |-> [len |-> 3, byte0 |-> (i + 1) % 2]]

\* The binding codes of the modern reader.
Bindings == {left_bind, right_bind} \cup lock_unlock_bind

(* --------------------------- claims C11 to C20 ------------------------- *)

\* C11 as claimed: the packets 0b000, 0b001, 0b000, 0b001 fed to the legacy
\* reader toggle left on the second and on the fourth packet.
LegacyEdgesAsClaimed ==
    variant = "Legacy" /\ fed # <<>> /\ IsPrefix(fed, LeftTwice)
        => state.left = (Len(fed) \in {2, 3})

\* C11 amended: left has been toggled once for every rising edge of the left
\* bit read while lock was false, and by nothing else: not by a steady or
\* falling left bit, and not by any packet read while locked, as the reader
\* is at its start.
LegacyEdges ==
    variant = "Legacy" =>
        state.left = Odd(Cardinality({i \in 1..Len(fed) : Rises(1, i) /\ ~LegacyLockedBefore(i)}))

\* C11 witness: 0b100 unlocks, then 0b000, 0b001, 0b000, 0b001 toggle left
\* twice.
LegacyEdgesWitness ==
    /\ variant = "Legacy"
    /\ Len(fed) = 5
    /\ fed[1] = [len |-> 3, byte0 |-> 4]
    /\ SubSeq(fed, 2, 5) = LeftTwice
    /\ ~state.left
    /\ ~state.lock

\* C12 as claimed: with a lock binding configured, one press on
\* lock_unlock_bind fed to the modern reader results in lock = true.
LockScenarioAsClaimed ==
    /\ variant = "Normal"
    /\ Len(fed) = 1
    /\ fed[1].code \in lock_unlock_bind
    /\ fed[1].value = 1
    => state.lock

\* C12 amended: the reader starts locked, so the first press on
\* lock_unlock_bind results in lock = false; a press on lock_unlock_bind read
\* while lock is false results in lock = true, and a press on left_bind (a
\* code other than the lock binding) read next sends nothing on the State
\* Channel.
LockScenario ==
    /\ [](variant = "Normal" /\ Len(fed) = 1 /\ fed[1].code \in lock_unlock_bind
            /\ fed[1].value = 1 => ~state.lock)
    /\ [][/\ fed' # fed
          /\ variant = "Normal"
          /\ left_bind \notin lock_unlock_bind
          /\ fed # <<>>
          /\ fed[Len(fed)].code \in lock_unlock_bind
          /\ fed[Len(fed)].value = 1
          /\ ~LockedBefore(Len(fed))
          /\ JustRead = [code |-> left_bind, value |-> 1]
          => state.lock /\ channel' = channel /\ state' = state]_vars

\* C12 witness: two presses on the lock binding (unlock, lock) and a press on
\* left_bind; only the two lock presses were published.
LockScenarioWitness ==
    /\ variant = "Normal"
    /\ left_bind \notin lock_unlock_bind
    /\ Len(fed) = 3
    /\ fed[1].code \in lock_unlock_bind /\ fed[1].value = 1
    /\ fed[2] = fed[1]
    /\ fed[3] = [code |-> left_bind, value |-> 1]
    /\ state.lock
    /\ Len(channel) = 3

\* C13. Snapshot publication: a record or packet sends exactly one snapshot,
\* the new state, when it changes the state, and none otherwise; no two
\* consecutive messages on the State Channel are equal.
SnapshotPublication ==
    /\ [][fed' # fed =>
            channel' = IF state' # state THEN Append(channel, state') ELSE channel]_vars
    /\ [](\A i \in 1..(Len(channel) - 1) : channel[i] # channel[i + 1])

\* C13 witness: three records of which two changed the state.
SnapshotPublicationWitness ==
    Len(fed) = 3 /\ Len(channel) = 3 /\ channel[3] = state

FieldOwnership ==
    /\ [](~state.override_active /\ \A i \in 1..Len(channel) : ~channel[i].override_active)
    /\ [][/\ Len(channel') < Len(channel) =>
                toggle' = [Head(channel) EXCEPT !.override_active = toggle.override_active]
          /\ Len(override_channel') < Len(override_channel) =>
                toggle' = [toggle EXCEPT !.override_active = Head(override_channel)]
          /\ toggle' # toggle =>
                \/ Len(channel') < Len(channel)
                \/ Len(override_channel') < Len(override_channel)]_vars

\* C15 witness: a snapshot consumed while override_active was true.
FieldOwnershipWitness ==
    /\ pc = "press"
    /\ toggle.override_active
    /\ toggle.left
    /\ calls[Len(calls)][2] = "some"

\* C16 as claimed: once a read on the primary or legacy device has failed the
\* emitter takes no further step.
FatalReadError == [][~input_alive => UNCHANGED emitter]_vars

\* C17. Transient override read error: a failed read on the override device
\* changes nothing but the override reader's position, the backoff is
\* followed by another read, the override reader never leaves its loop, and
\* during the backoff the primary reader can still read.
OverrideRetry ==
    /\ [](override_pc \in {"read", "backoff"})
    /\ [](override_pc = "backoff" => ENABLED RetryOverride /\ (input_alive => ENABLED ReadNormal))
    /\ [][override_pc' # override_pc =>
            /\ UNCHANGED <<config, reader, override_fed, channel, override_channel, emitter>>
            /\ override_pc = "backoff" => override_pc' = "read"]_vars

\* C17 witness: the override reader is backing off while the emitter has
\* finished an iteration that clicked.
OverrideRetryWitness ==
    override_pc = "backoff" /\ IterationDone /\ Keys(calls) # <<>>

\* C18. Malformed legacy packet: a read of a length other than 3 leaves left,
\* right, lock and the previous levels unchanged and sends no snapshot.
MalformedPacket ==
    [][fed' # fed /\ variant = "Legacy" /\ JustRead.len # 3 =>
            UNCHANGED <<state, old, channel>>]_vars

\* C18 witness: 0b101 (unlock, left), a short read, then 0b001: the reader
\* went on with the levels of the first packet, so nothing toggled again.
MalformedPacketWitness ==
    /\ variant = "Legacy"
    /\ Len(fed) = 3
    /\ fed[1] = [len |-> 3, byte0 |-> 5]
    /\ fed[2].len # 3
    /\ fed[3] = [len |-> 3, byte0 |-> 5]
    /\ ~state.lock
    /\ Len(channel) = 2

\* C19. Grab pass-through: with grab, a record on a code that is no binding
\* is written to the Output Device once, unchanged; without grab the primary
\* reader writes nothing.
GrabPassThrough ==
    /\ [](~grab => written = NoWrite)
    /\ [][fed' # fed /\ variant = "Normal" /\ grab /\ JustRead.code \notin Bindings
            => written' = <<JustRead>>]_vars

\* C19 witness: a press on KEY_C passed through under grab.
GrabPassThroughWitness ==
    grab /\ fed # <<>> /\ written = <<[code |-> KEY_C, value |-> 1]>>

InitialSnapshot ==
    [left |-> FALSE, right |-> FALSE,
     lock |-> (variant = "Legacy" \/ lock_unlock_bind # {}),
     override_active |-> FALSE]

\* C21 as claimed: the emitter's toggle is all-false until it consumes the
\* initial snapshot.
InitialStateAsClaimed == ~synced => toggle = Default

\* C21 amended: the reader starts with the initial snapshot as its state and
\* has sent it before any record is processed; the emitter's toggle starts
\* all-false, its left, right and lock stay false until it consumes a
\* snapshot, and the first snapshot it consumes is the initial one. Its
\* override_active can be set before that, by the Override Channel poll that
\* comes first in the loop.
InitialState ==
    /\ state = InitialSnapshot /\ channel = <<state>> /\ toggle = Default /\ ~synced
    /\ [](~synced =>
            /\ channel # <<>> /\ Head(channel) = InitialSnapshot
            /\ ~toggle.left /\ ~toggle.right /\ ~toggle.lock)
    /\ [][~synced /\ synced' =>
            toggle' = [InitialSnapshot EXCEPT !.override_active = toggle.override_active]]_vars

\* C21 witness: the emitter has just consumed the initial snapshot of a
\* locked reader, on its blocking receive, while a later snapshot waits.
InitialStateWitness ==
    /\ synced
    /\ pc = "press"
    /\ calls = <<<<"recv", "some">>>>
    /\ toggle = InitialSnapshot
    /\ toggle.lock
    /\ channel # <<>>

\* The record the override reader step just taken has read.
JustReadOverride == override_fed'[Len(override_fed')]

\* C22 as claimed: a record whose code is in override_keys sends exactly one
\* boolean, true for value 1 or 2; every other record sends nothing.
OverrideMappingAsClaimed ==
    [][override_fed' # override_fed =>
        override_channel' = override_channel \o
            (IF JustReadOverride.code \in override_keys
             THEN <<JustReadOverride.value \in {1, 2}>>
             ELSE <<>>)]_vars

\* C22 amended: the record must also be a key event (type_ = EV_KEY); a
\* record of another type sends nothing, whatever its code.
OverrideMapping ==
    [][override_fed' # override_fed =>
        override_channel' = override_channel \o
            (IF JustReadOverride.type_ = EV_KEY /\ JustReadOverride.code \in override_keys
             THEN <<JustReadOverride.value \in {1, 2}>>
             ELSE <<>>)]_vars

\* C22 witness: press of the override key, a press of another key, release
\* of the override key: true and false were sent.
OverrideMappingWitness ==
    /\ override_fed = <<[type_ |-> EV_KEY, code |-> KEY_LEFTCTRL, value |-> 1],
                        [type_ |-> EV_KEY, code |-> KEY_C, value |-> 1],
                        [type_ |-> EV_KEY, code |-> KEY_LEFTCTRL, value |-> 0]>>
    /\ override_channel = <<TRUE, FALSE>>

\* C23. Conditional receive: the emitter's State Channel step is a blocking
\* receive exactly when left and right are both false at that point, and a
\* poll otherwise; it cannot block while left or right is true, it does block
\* while idle on an empty channel whose sender lives, and its Override
\* Channel step never blocks.
ConditionalReceive ==
    /\ [](pc = "override" => ENABLED PollOverride)
    /\ [](pc = "state" /\ (toggle.left \/ toggle.right) => ENABLED RecvState)
    /\ [](pc = "state" /\ ~toggle.left /\ ~toggle.right /\ channel = <<>> /\ input_alive
            => ~ENABLED RecvState)
    /\ [][pc = "state" /\ pc' # pc =>
            calls'[Len(calls')][1] =
                IF toggle.left \/ toggle.right THEN "try_recv" ELSE "recv"]_vars

\* C23 witness: with only right set the emitter polled an empty State
\* Channel and went on to the click step.
ConditionalReceiveWitness ==
    /\ pc = "press"
    /\ toggle.right /\ ~toggle.left
    /\ channel = <<>>
    /\ calls[Len(calls)] = <<"try_recv", "none">>

\* C24. Cooldown skip: should_click_immediately is set by the Override
\* Channel step exactly when it consumes `false` while override_active was
\* true and left or right was set, and by nothing else in the iteration; the
\* iteration ends with the cooldown sleep exactly when it is not set, and the
\* next iteration starts from false again.
CooldownSkip ==
    [][/\ pc = "override" /\ pc' # pc =>
            should_click_immediately' =
                (/\ override_channel # <<>>
                 /\ ~Head(override_channel)
                 /\ toggle.override_active
                 /\ (toggle.left \/ toggle.right))
       /\ pc # "override" => should_click_immediately' = should_click_immediately
       /\ pc = "cooldown" /\ pc' # pc =>
            /\ pc' = "override"
            /\ calls' = IF should_click_immediately
                        THEN calls
                        ELSE Append(calls, <<"sleep", "cooldown">>)]_vars

\* C24 witness: an iteration that resumed clicking and ended without the
\* cooldown sleep.
CooldownSkipWitness ==
    /\ IterationDone
    /\ should_click_immediately
    /\ calls[1] = <<"override", "false">>
    /\ Len(Keys(calls)) = 2
    /\ \A i \in 1..Len(calls) : calls[i] # <<"sleep", "cooldown">>

\* C26 as claimed: a pressed record on a code bound to two roles leaves the
\* flag of the role evaluated earlier (left before right before lock)
\* unchanged.
BindingCollisionAsClaimed ==
    [][fed' # fed /\ variant = "Normal" /\ JustRead.value \in {1, 2} =>
        /\ JustRead.code = left_bind /\ left_bind = right_bind
              => state'.left = state.left
        /\ JustRead.code = left_bind /\ left_bind \in lock_unlock_bind
              => state'.left = state.left
        /\ JustRead.code = right_bind /\ right_bind \in lock_unlock_bind
              => state'.right = state.right]_vars

\* C26 amended: a pressed record takes effect for every role its code is
\* bound to, in the order left, right, lock: lock flips when the code is the
\* lock binding, and left (right) changes when the code is left_bind
\* (right_bind) and lock was false before the record, whatever else the code
\* is bound to.
BindingCollision ==
    [][fed' # fed /\ variant = "Normal" /\ JustRead.value \in {1, 2} =>
        /\ state'.lock = (state.lock # (JustRead.code \in lock_unlock_bind))
        /\ state'.left = IF ~state.lock /\ JustRead.code = left_bind
                         THEN hold \/ ~state.left
                         ELSE state.left
        /\ state'.right = IF ~state.lock /\ JustRead.code = right_bind
                          THEN hold \/ ~state.right
                          ELSE state.right]_vars

\* C26 witness: one code bound to all three roles, pressed twice in toggle
\* mode: the first press unlocks, the second sets left and right and locks.
BindingCollisionWitness ==
    /\ variant = "Normal" /\ ~hold
    /\ left_bind = right_bind /\ lock_unlock_bind = {left_bind}
    /\ fed = <<[code |-> left_bind, value |-> 1], [code |-> left_bind, value |-> 1]>>
    /\ state.left /\ state.right /\ state.lock

\* C30. Locking does not clear click flags: with pairwise distinct binding
\* codes a record that flips lock (a modern lock-bind press, a legacy packet
\* whose only rising edge is the middle button) leaves left and right
\* unchanged; they stay unchanged while the reader is locked, and the emitter
\* clicks on a locked toggle whose left or right is set.
LockKeepsFlags ==
    /\ [][state'.lock # state.lock =>
            /\ /\ variant = "Normal"
               /\ left_bind # right_bind
               /\ left_bind \notin lock_unlock_bind
               /\ right_bind \notin lock_unlock_bind
               => state'.left = state.left /\ state'.right = state.right
            /\ /\ variant = "Legacy"
               /\ ~(old.left = 0 /\ old'.left = 1)
               /\ ~(old.right = 0 /\ old'.right = 1)
               => state'.left = state.left /\ state'.right = state.right]_vars
    /\ [][state.lock /\ state'.lock =>
            state'.left = state.left /\ state'.right = state.right]_vars
    /\ [](IterationDone /\ toggle.lock /\ ~toggle.override_active
            /\ (toggle.left \/ toggle.right) => Len(Keys(calls)) = 2)

\* C30 witness: the modern reader was locked with left set, and the emitter
\* has clicked on that snapshot.
LockKeepsFlagsWitness ==
    /\ variant = "Normal"
    /\ state.lock /\ state.left
    /\ channel = <<>>
    /\ toggle.lock /\ toggle.left
    /\ IterationDone
    /\ Keys(calls) = <<<<"ButtonLeft", "PRESSED">>, <<"ButtonLeft", "RELEASED">>>>

\* The emitter has sent a press and not yet its release.
MidClick == pc \in {"sleep", "release"} /\ Presses(calls) # <<>>

\* C29 as claimed: no pass-through write of the primary reader reaches the
\* Output Device between an emitter press and its release.
OutputSharingAsClaimed ==
    [][written' # written /\ written' # NoWrite => ~MidClick]_vars

\* C29 amended: the two threads take no lock on the Output Device: between
\* an emitter press and its release the grabbing reader can read a record
\* and pass it through; such a write leaves the emitter's own commands as
\* they are, so that its press is still followed by its release.
OutputSharing ==
    /\ [](variant = "Normal" /\ grab /\ input_alive /\ MidClick
            => ENABLED (ReadNormal /\ written' # NoWrite))
    /\ [][written' # written => UNCHANGED emitter]_vars
    /\ [][MidClick /\ Len(Keys(calls')) > Len(Keys(calls)) =>
            Keys(calls') = Append(Keys(calls), <<Keys(calls)[1][1], "RELEASED">>)]_vars

\* C29 witness: the grabbing reader has passed a record through and the
\* emitter is between its press and its release.
OutputSharingWitness ==
    /\ grab
    /\ input_alive
    /\ MidClick
    /\ written = <<[code |-> KEY_C, value |-> 1]>>

\* The toggle clicks and nothing waits on either channel.
Clicking ==
    /\ toggle.left \/ toggle.right
    /\ ~toggle.override_active
    /\ channel = <<>>
    /\ override_channel = <<>>

\* C25. Click delivery does not stall: if from some point on the toggle has
\* left or right set and override_active false, and no message arrives on
\* either channel any more, the emitter sends presses again and again.
ClickDelivery == <>[]Clicking => []<>MidClick

\* C25 witness: an iteration that found both channels empty and pressed.
ClickDeliveryWitness ==
    /\ Clicking
    /\ MidClick
    /\ calls[1] = <<"try_recv", "none">>

\* The emitter's left, right and lock are the reader's.
Converged ==
    /\ toggle.left = state.left
    /\ toggle.right = state.right
    /\ toggle.lock = state.lock

\* C27. Eventual convergence: if the primary reader stops publishing (its
\* state no longer changes), the emitter's left, right and lock eventually
\* equal the reader's and stay equal; on the way it consumes one State
\* Channel message per iteration, the oldest, and acts on it.
Convergence ==
    /\ <>[][state' = state]_vars => <>[]Converged
    /\ [][Len(channel') < Len(channel) =>
            /\ pc = "state" /\ pc' = "press"
            /\ channel' = Tail(channel)
            /\ toggle'.left = Head(channel).left
            /\ toggle'.right = Head(channel).right
            /\ toggle'.lock = Head(channel).lock]_vars

\* C27 witness: the reader thread has ended, the emitter has worked through
\* the snapshots and holds the reader's last state, which clicks.
ConvergenceWitness ==
    /\ ~input_alive
    /\ channel = <<>>
    /\ Converged
    /\ state.left /\ state.lock
    /\ IterationDone

\* C28 as claimed: a boolean waiting on the Override Channel is eventually
\* consumed by the emitter.
OverrideApplied ==
    (override_channel # <<>>) ~> (pc = "state" /\ calls # <<>> /\ calls[1][1] = "override")

====
